---- MODULE Spec2Model ----
(***************************************************************************)
(* A model of llvm-interface/llvm_wrapper.cc: the optimization pipeline    *)
(* driver (LLVM_Optimize_Module), the value deletion callback handle       *)
(* (GNATCallbackVH / Notify_On_Value_Delete) and the TBAA type node        *)
(* constructors (Create_TBAA_Root / _Scalar_Type_Node / _Struct_Type_Node).*)
(***************************************************************************)
EXTENDS Integers, Sequences, FiniteSets, TLC

(* ------------------------------ bounds -------------------------------- *)

\* CodeOptLevel is an int; the model draws it from -ExtraLevels .. 3+ExtraLevels.
ExtraLevels == 1
\* SizeOptLevel is drawn from 0 .. MaxSizeLevel.
MaxSizeLevel == 2
\* Calls of LLVM_Optimize_Module in one behaviour.
MaxCalls == 2
\* Value addresses 1 .. MaxValues.
MaxValues == 2
\* Notify_On_Value_Delete registrations in one behaviour.
MaxRegs == 3
\* Times a freed address is handed out again for a new Value.
MaxReuse == 1
\* MDNodes in the LLVMContext.
MaxNodes == 3
\* num_fields of Create_TBAA_Struct_Type_Node.
MaxFields == 2
\* Bit widths 1 .. MaxWidth of the ConstantInts compared.
MaxWidth == 3
\* Significant decimal digits of the finite floating point values rendered.
MaxDigits == 2

VARIABLES
  \* LLVM_Optimize_Module
  args,          \* the arguments of the call (fixed for a behaviour)
  ncalls,        \* calls made so far
  frame,         \* the locals and return value of the latest call
  ErrorMessage,  \* the caller's char* that ErrorMessage points to
  M,             \* the module: the pass sequences run over it, in order
  aborted,       \* the process was aborted (llvm_unreachable)
  \* GNATCallbackVH
  alive,         \* address -> whether a Value lives there
  reused,        \* how many times an address was handed out again
  handles,       \* the GNATCallbackVH objects created, in order
  calls,         \* the callback invocations made, in order
  uafReads,      \* handle fields read after the handle's storage was freed
  crashed,       \* a call through a wild function pointer happened
  \* TBAA nodes
  ctx,           \* the LLVMContext's uniqued MDNodes: operand lists
  tbaaCall,      \* the latest Create_TBAA_* call: arguments and result
  pending,       \* arguments of a Create_TBAA_Struct_Type_Node call to make
  \* Convert_FP_To_String
  fpV,           \* the APFloat of the ConstantFP V
  Buf,           \* the caller's buffer: characters, the terminator included
  fpRet,         \* the value returned
  fpDone,        \* the call has been made
  \* Equal_Constants
  eqV,           \* the APInts of v1 and v2
  eqRet,         \* the value returned
  eqDone         \* the call has been made

optVars == <<args, ncalls, frame, ErrorMessage, M, aborted>>
vhVars == <<alive, reused, handles, calls, uafReads, crashed>>
tbaaVars == <<ctx, tbaaCall, pending>>
fpVars == <<fpV, Buf, fpRet, fpDone>>
eqVars == <<eqV, eqRet, eqDone>>
vars == <<optVars, vhVars, tbaaVars, fpVars, eqVars>>

(* ------------------------ LLVM_Optimize_Module ------------------------ *)

CodeOptLevels == (0 - ExtraLevels) .. (3 + ExtraLevels)
SizeOptLevels == 0 .. MaxSizeLevel
\* PassPluginName: nullptr, a plugin that loads, a path that does not load.
PluginNames == {"null", "good.so", "missing.so"}
LoadablePlugins == {"good.so"}
\* The ErrorMessage argument: nullptr, or the address of the caller's char*.
ErrorMessageArgs == {"null", "ptr"}

ArgSpace ==
  [CodeOptLevel : CodeOptLevels, SizeOptLevel : SizeOptLevels,
   NeedLoopInfo : BOOLEAN, NoUnrollLoops : BOOLEAN,
   NoLoopVectorization : BOOLEAN, NoSLPVectorization : BOOLEAN,
   MergeFunctions : BOOLEAN, PrepareForThinLTO : BOOLEAN,
   PrepareForLTO : BOOLEAN, RerollLoops : BOOLEAN,
   PassPluginName : PluginNames, ErrorMessage : ErrorMessageArgs]

\* A variant of LevelOf in which a non-zero size level picks the level.
LevelOf_SizeSelects(a) ==
  IF a.SizeOptLevel > 0 THEN "O2"
  ELSE IF a.CodeOptLevel = 1 THEN "O1"
  ELSE IF a.CodeOptLevel = 2 THEN "O2"
  ELSE IF a.CodeOptLevel = 3 THEN "O3"
  ELSE "O0"

\* OptimizationLevel Level = (CodeOptLevel == 1 ? O1 : ... : O0)
LevelOf(a) ==
  IF a.CodeOptLevel = 1 THEN "O1"
  ELSE IF a.CodeOptLevel = 2 THEN "O2"
  ELSE IF a.CodeOptLevel = 3 THEN "O3"
  ELSE "O0"

\* A variant of PTOOf in which interleaving follows the vectorization flag.
PTOOf_InterleaveFollowsVectorize(a) ==
  [LoopUnrolling |-> ~a.NoUnrollLoops,
   LoopInterleaving |-> ~a.NoLoopVectorization,
   LoopVectorization |-> ~a.NoLoopVectorization,
   SLPVectorization |-> ~a.NoSLPVectorization,
   MergeFunctions |-> a.MergeFunctions]

\* PTO.LoopUnrolling = !NoUnrollLoops; ... PTO.MergeFunctions = MergeFunctions;
PTOOf(a) ==
  [LoopUnrolling |-> ~a.NoUnrollLoops,
   LoopInterleaving |-> ~a.NoUnrollLoops,
   LoopVectorization |-> ~a.NoLoopVectorization,
   SLPVectorization |-> ~a.NoSLPVectorization,
   MergeFunctions |-> a.MergeFunctions]

\* PassBuilder PB (TM, PTO, PGOOpt, &PIC): what the built pipelines depend on.
PassBuilderOf(PTO) == [PTO |-> PTO, callbacks |-> "none"]

\* PassPlugin::Load (PassPluginName): the plugin, or an Error.  Every error
\* PassPlugin::Load makes is a StringError.
PassPlugin_Load(name) ==
  IF name \in LoadablePlugins
  THEN [ok |-> TRUE, kind |-> "none", msg |-> ""]
  ELSE [ok |-> FALSE, kind |-> "StringError", msg |-> "Could not load library"]

\* Plugin->registerPassBuilderCallbacks (PB)
RegisterPassBuilderCallbacks(PB, name) == [PB EXCEPT !.callbacks = name]

\* A variant of the handler that drops the message.
StringErrorHandler_NoMessage(a, Err, em) == em

\* [&](const StringError &Err) { if (ErrorMessage != nullptr)
\*                                 *ErrorMessage = strdup (Err.getMessage ()); }
StringErrorHandler(a, Err, em) ==
  IF a.ErrorMessage # "null" THEN Err.msg ELSE em

\* handleAllErrors: the handler runs on an error of its type; an error no
\* handler takes is llvm_unreachable.
HandleAllErrors(a, Err, em) ==
  IF Err.kind = "StringError"
  THEN [ErrorMessage |-> StringErrorHandler(a, Err, em), aborted |-> FALSE]
  ELSE [ErrorMessage |-> em, aborted |-> TRUE]

\* The passes of a ModulePassManager: a default pipeline built by PB, or one of
\* the two loop passes added through the adaptors.
Pipeline(kind, Level, LTOPreLink, PB) ==
  [pass |-> kind, Level |-> Level, LTOPreLink |-> LTOPreLink, PB |-> PB]
PipelineKinds == {"O0Default", "ThinLTOPreLink", "LTOPreLink", "PerModule"}
NoPB == [PTO |-> [LoopUnrolling |-> FALSE, LoopInterleaving |-> FALSE,
                  LoopVectorization |-> FALSE, SLPVectorization |-> FALSE,
                  MergeFunctions |-> FALSE],
         callbacks |-> "none"]
LoopRotatePass == [pass |-> "LoopRotatePass", Level |-> "-", LTOPreLink |-> FALSE, PB |-> NoPB]
OurLoopPass == [pass |-> "OurLoopPass", Level |-> "-", LTOPreLink |-> FALSE, PB |-> NoPB]
\* A variant of AssemblePasses that tests PrepareForLTO before PrepareForThinLTO.
AssemblePasses_LTOFirst(a, Level, PB) ==
  LET MPM ==
        IF a.CodeOptLevel = 0
        THEN LET O0 == <<Pipeline("O0Default", Level,
                                  a.PrepareForLTO \/ a.PrepareForThinLTO, PB)>>
             IN  IF a.NeedLoopInfo THEN Append(O0, LoopRotatePass) ELSE O0
        ELSE IF a.PrepareForLTO
        THEN <<Pipeline("LTOPreLink", Level, FALSE, PB)>>
        ELSE IF a.PrepareForThinLTO
        THEN <<Pipeline("ThinLTOPreLink", Level, FALSE, PB)>>
        ELSE <<Pipeline("PerModule", Level, FALSE, PB)>>
  IN  IF a.NeedLoopInfo THEN Append(MPM, OurLoopPass) ELSE MPM

\* A variant of AssemblePasses that adds the rotation pass at every level.
AssemblePasses_RotateAlways(a, Level, PB) ==
  LET MPM ==
        IF a.CodeOptLevel = 0
        THEN <<Pipeline("O0Default", Level,
                        a.PrepareForLTO \/ a.PrepareForThinLTO, PB)>>
        ELSE IF a.PrepareForThinLTO
        THEN <<Pipeline("ThinLTOPreLink", Level, FALSE, PB)>>
        ELSE IF a.PrepareForLTO
        THEN <<Pipeline("LTOPreLink", Level, FALSE, PB)>>
        ELSE <<Pipeline("PerModule", Level, FALSE, PB)>>
  IN  IF a.NeedLoopInfo
      THEN Append(Append(MPM, LoopRotatePass), OurLoopPass)
      ELSE MPM

\* ModulePassManager MPM; if (CodeOptLevel == 0) ... else if (PrepareForThinLTO)
\* ... else if (PrepareForLTO) ... else ...; if (NeedLoopInfo) MPM.addPass (...)
AssemblePasses(a, Level, PB) ==
  LET MPM ==
        IF a.CodeOptLevel = 0
        THEN LET O0 == <<Pipeline("O0Default", Level,
                                  a.PrepareForLTO \/ a.PrepareForThinLTO, PB)>>
             IN  IF a.NeedLoopInfo THEN Append(O0, LoopRotatePass) ELSE O0
        ELSE IF a.PrepareForThinLTO
        THEN <<Pipeline("ThinLTOPreLink", Level, FALSE, PB)>>
        ELSE IF a.PrepareForLTO
        THEN <<Pipeline("LTOPreLink", Level, FALSE, PB)>>
        ELSE <<Pipeline("PerModule", Level, FALSE, PB)>>
  IN  IF a.NeedLoopInfo THEN Append(MPM, OurLoopPass) ELSE MPM

\* The locals of a call at its return.  built: MPM was constructed; ran:
\* MPM.run (*M, MAM) was executed.
Frame(returned, ret, Level, PTO, built, MPM, ran) ==
  [returned |-> returned, ret |-> ret, Level |-> Level, PTO |-> PTO,
   built |-> built, MPM |-> MPM, ran |-> ran]
NoFrame == Frame(FALSE, 0, "O0", NoPB.PTO, FALSE, <<>>, FALSE)

\* The whole function from the plugin load on: the result of a call that runs to
\* its end with the plugin (if any) loaded.
RunPasses(a, Level, PTO, PB, em, m) ==
  LET MPM == AssemblePasses(a, Level, PB)
  IN  [frame |-> Frame(TRUE, 0, Level, PTO, TRUE, MPM, TRUE),
       ErrorMessage |-> em, M |-> Append(m, MPM), aborted |-> FALSE]

\* A variant of OptimizeModule that reports the load failure only after the
\* passes have run.
OptimizeModule_LateReturn(a, em, m) ==
  LET Level == LevelOf(a)
      PTO == PTOOf(a)
      PB == PassBuilderOf(PTO)
      Plugin == PassPlugin_Load(a.PassPluginName)
  IN  IF a.PassPluginName # "null" /\ ~Plugin.ok
      THEN LET h == HandleAllErrors(a, Plugin, em)
               r == RunPasses(a, Level, PTO, PB, h.ErrorMessage, m)
           IN  [r EXCEPT !.frame.ret = 1]
      ELSE IF a.PassPluginName # "null"
      THEN RunPasses(a, Level, PTO,
                     RegisterPassBuilderCallbacks(PB, a.PassPluginName), em, m)
      ELSE RunPasses(a, Level, PTO, PB, em, m)

\* LLVM_Optimize_Module (M, TM, CodeOptLevel, ..., PassPluginName, ErrorMessage)
\* on a module m, with *ErrorMessage holding em.
OptimizeModule(a, em, m) ==
  LET Level == LevelOf(a)
      PTO == PTOOf(a)
      PB == PassBuilderOf(PTO)
      Plugin == PassPlugin_Load(a.PassPluginName)
  IN  IF a.PassPluginName # "null" /\ ~Plugin.ok
      THEN LET h == HandleAllErrors(a, Plugin, em)
           IN  IF h.aborted
               THEN [frame |-> Frame(FALSE, 0, Level, PTO, FALSE, <<>>, FALSE),
                     ErrorMessage |-> h.ErrorMessage, M |-> m, aborted |-> TRUE]
               ELSE [frame |-> Frame(TRUE, 1, Level, PTO, FALSE, <<>>, FALSE),
                     ErrorMessage |-> h.ErrorMessage, M |-> m, aborted |-> FALSE]
      ELSE IF a.PassPluginName # "null"
      THEN RunPasses(a, Level, PTO,
                     RegisterPassBuilderCallbacks(PB, a.PassPluginName), em, m)
      ELSE RunPasses(a, Level, PTO, PB, em, m)

LLVM_Optimize_Module ==
  /\ ncalls < MaxCalls
  /\ ~aborted
  /\ LET r == OptimizeModule(args, ErrorMessage, M)
     IN  /\ frame' = r.frame
         /\ ErrorMessage' = r.ErrorMessage
         /\ M' = r.M
         /\ aborted' = r.aborted
  /\ ncalls' = ncalls + 1
  /\ UNCHANGED <<args, vhVars, tbaaVars, fpVars, eqVars>>
(* --------------- GNATCallbackVH / Notify_On_Value_Delete --------------- *)

Addrs == 1 .. MaxValues
\* The callbacks the frontend passes as Fn.
Fns == {"cb1", "cb2"}
\* What a read of freed storage may yield besides the value once stored.
WildAddr == MaxValues + 1
WildFn == "wild"

\* class GNATCallbackVH: Value *val; void (*fn) (Value *); the handle is Armed
\* while it is on its Value's handle list and Fired once deleted () has run.
GNATCallbackVH(V, Fn) == [val |-> V, fn |-> Fn, st |-> "Armed"]

\* The statements of GNATCallbackVH::deleted (), in order.
deletedBody == <<"delete this", "(this->fn) (this->val)">>

\* Whether statement stmt of deleted () runs after the handle's storage is freed.
RunsAfterFree(stmt) ==
  \E i, j \in 1 .. Len(deletedBody) :
    i < j /\ deletedBody[i] = "delete this" /\ deletedBody[j] = stmt

\* The values the reads of this->fn and this->val may yield: the fields as
\* stored, or, once the storage is freed, anything.
FieldReads(h) ==
  IF RunsAfterFree("(this->fn) (this->val)")
  THEN [fn : {h.fn, WildFn}, val : {h.val, WildAddr}]
  ELSE {[fn |-> h.fn, val |-> h.val]}

\* The handles on the handle list of the Value at address a.
ArmedOn(hs, a) == {i \in 1 .. Len(hs) : hs[i].val = a /\ hs[i].st = "Armed"}

\* GNATCallbackVH::deleted () on handle i, the reads of its fields yielding rd:
\* the handle is freed, and fn is called with val (a call through a wild
\* pointer crashes).
deleted(st, i, rd) ==
  [handles |-> [st.handles EXCEPT ![i].st = "Fired"],
   calls |-> IF rd.fn = WildFn THEN st.calls
             ELSE Append(st.calls, [fn |-> rd.fn, arg |-> rd.val, handle |-> i]),
   uafReads |-> IF RunsAfterFree("(this->fn) (this->val)")
                THEN st.uafReads \cup {i} ELSE st.uafReads,
   crashed |-> rd.fn = WildFn]

\* ValueHandleBase::ValueIsDeleted: deleted () on each handle of the Value from
\* handle i on, in list order, until one crashes.
RECURSIVE RunDeleted(_, _, _, _)
RunDeleted(st, a, rds, i) ==
  IF i > Len(st.handles) \/ st.crashed THEN st
  ELSE IF st.handles[i].val = a /\ st.handles[i].st = "Armed"
  THEN RunDeleted(deleted(st, i, rds[i]), a, rds, i + 1)
  ELSE RunDeleted(st, a, rds, i + 1)

\* Notify_On_Value_Delete (V, Fn): new GNATCallbackVH (V, Fn)
Notify_On_Value_Delete ==
  \E V \in Addrs, Fn \in Fns :
    /\ alive[V]
    /\ ~crashed
    /\ Len(handles) < MaxRegs
    /\ handles' = Append(handles, GNATCallbackVH(V, Fn))
    /\ UNCHANGED <<alive, reused, calls, uafReads, crashed, optVars, tbaaVars, fpVars, eqVars>>

\* The Value at address a is destroyed: its handles are notified.
Value_Deleted ==
  \E a \in Addrs :
    /\ alive[a]
    /\ ~crashed
    /\ \E rds \in [ArmedOn(handles, a) -> [fn : Fns \cup {WildFn},
                                          val : Addrs \cup {WildAddr}]] :
         /\ \A i \in ArmedOn(handles, a) : rds[i] \in FieldReads(handles[i])
         /\ LET st == RunDeleted([handles |-> handles, calls |-> calls,
                                  uafReads |-> uafReads, crashed |-> crashed],
                                 a, rds, 1)
            IN  /\ handles' = st.handles
                /\ calls' = st.calls
                /\ uafReads' = st.uafReads
                /\ crashed' = st.crashed
    /\ alive' = [alive EXCEPT ![a] = FALSE]
    /\ UNCHANGED <<reused, optVars, tbaaVars, fpVars, eqVars>>

\* The address of a destroyed Value is used for some other Value.
Address_Reused ==
  \E a \in Addrs :
    /\ ~alive[a]
    /\ ~crashed
    /\ reused < MaxReuse
    /\ alive' = [alive EXCEPT ![a] = TRUE]
    /\ reused' = reused + 1
    /\ UNCHANGED <<handles, calls, uafReads, crashed, optVars, tbaaVars, fpVars, eqVars>>
(* ----------------------------- TBAA nodes ------------------------------ *)

\* Metadata operands: a reference to MDNode n of the context, a ConstantInt
\* of type i64, an MDString, or a null operand.
MDNodeRef(n) == [k |-> "node", n |-> n, s |-> ""]
MDConstant(v) == [k |-> "int", n |-> v, s |-> ""]
MDString(str) == [k |-> "str", n |-> 0, s |-> str]
MDNull == [k |-> "null", n |-> 0, s |-> ""]

\* MDNode::get (ctx, Ops): the context's node with these operands, made if
\* the context has none (MDNodes are uniqued).
MDNode_get(c, Ops) ==
  IF \E i \in 1 .. Len(c) : c[i] = Ops
  THEN [ctx |-> c, node |-> CHOOSE i \in 1 .. Len(c) : c[i] = Ops]
  ELSE [ctx |-> Append(c, Ops), node |-> Len(c) + 1]

\* MDHelper->createTBAARoot ("Ada Root")
RootOps == <<MDString("Ada Root")>>

\* A variant of ScalarOps with the size first.
ScalarOps_SizeFirst(name, size, parent) ==
  <<MDConstant(size), MDNodeRef(parent), MDString(name)>>

\* MDNode::get (ctx, {parent, MDsize, MDname})
ScalarOps(name, size, parent) ==
  <<MDNodeRef(parent), MDConstant(size), MDString(name)>>

\* The loop of Create_TBAA_Struct_Type_Node from i on; Ops [k] of the code is
\* Ops[k + 1] here.
RECURSIVE StructLoop(_, _, _, _, _, _)
StructLoop(Ops, i, num_fields, fields, offsets, sizes) ==
  IF i < num_fields
  THEN StructLoop([Ops EXCEPT ![3 + i * 3 + 1] = MDNodeRef(fields[i + 1]),
                              ![3 + i * 3 + 1 + 1] = MDConstant(offsets[i + 1]),
                              ![3 + i * 3 + 2 + 1] = MDConstant(sizes[i + 1])],
                  i + 1, num_fields, fields, offsets, sizes)
  ELSE Ops

\* A variant of StructOps whose loop stores every field's size from sizes [0].
StructOps_FirstSize(name, size, num_fields, parent, fields, offsets, sizes) ==
  LET Ops0 == [k \in 1 .. (num_fields * 3 + 3) |-> MDNull]
      Ops3 == [Ops0 EXCEPT ![1] = MDNodeRef(parent), ![2] = MDConstant(size),
                           ![3] = MDString(name)]
  IN  StructLoop(Ops3, 0, num_fields, fields, offsets,
                 [k \in 1 .. Len(sizes) |-> sizes[1]])

\* SmallVector<Metadata *, 8> Ops (num_fields * 3 + 3); Ops [0] = parent; ...
StructOps(name, size, num_fields, parent, fields, offsets, sizes) ==
  LET Ops0 == [k \in 1 .. (num_fields * 3 + 3) |-> MDNull]
      Ops3 == [Ops0 EXCEPT ![1] = MDNodeRef(parent), ![2] = MDConstant(size),
                           ![3] = MDString(name)]
  IN  StructLoop(Ops3, 0, num_fields, fields, offsets, sizes)

\* A Create_TBAA_* call: its arguments and the node it returned.
TBAACall(fn, name, size, num_fields, parent, fields, offsets, sizes, ret) ==
  [fn |-> fn, name |-> name, size |-> size, num_fields |-> num_fields,
   parent |-> parent, fields |-> fields, offsets |-> offsets, sizes |-> sizes,
   ret |-> ret]
NoCall == TBAACall("none", "", 0, 0, 0, <<>>, <<>>, <<>>, 0)

Names == {"a", "b"}
TypeSizes == {8, 16}
FieldOffsets == {0, 8}
FieldSizes == {4, 8}
\* The sizes and offsets drawn while a hierarchy of nodes is built.
TreeTypeSizes == {16}
TreeFieldOffsets == {0}
TreeFieldSizes == {4}

\* The argument lists of Create_TBAA_Struct_Type_Node over a context of n
\* nodes: arrays of num_fields entries.
StructArgs(n, names, tsizes, foffsets, fsizes) ==
  UNION {
    {TBAACall("struct", name, size, nf, parent, fields, offsets, sizes, 0) :
       name \in names, size \in tsizes, parent \in 1 .. n,
       fields \in [1 .. nf -> 1 .. n], offsets \in [1 .. nf -> foffsets],
       sizes \in [1 .. nf -> fsizes]} : nf \in 0 .. MaxFields}

\* Create_TBAA_Root (MDHelper)
Create_TBAA_Root ==
  /\ Len(ctx) < MaxNodes
  /\ LET r == MDNode_get(ctx, RootOps)
     IN  /\ ctx' = r.ctx
         /\ tbaaCall' = TBAACall("root", "", 0, 0, 0, <<>>, <<>>, <<>>, r.node)
  /\ UNCHANGED <<pending, optVars, vhVars, fpVars, eqVars>>

\* Create_TBAA_Scalar_Type_Node (ctx, MDHelper, name, size, parent); parent is
\* a node the builder returned earlier.
Create_TBAA_Scalar_Type_Node ==
  /\ Len(ctx) < MaxNodes
  /\ \E name \in Names, size \in TreeTypeSizes, parent \in 1 .. Len(ctx) :
       LET r == MDNode_get(ctx, ScalarOps(name, size, parent))
       IN  /\ ctx' = r.ctx
           /\ tbaaCall' = TBAACall("scalar", name, size, 0, parent,
                                   <<>>, <<>>, <<>>, r.node)
  /\ UNCHANGED <<pending, optVars, vhVars, fpVars, eqVars>>

\* Create_TBAA_Struct_Type_Node with the arguments a.
StructCall(a) ==
  LET r == MDNode_get(ctx, StructOps(a.name, a.size, a.num_fields, a.parent,
                                     a.fields, a.offsets, a.sizes))
  IN  /\ ctx' = r.ctx
      /\ tbaaCall' = [a EXCEPT !.ret = r.node]

\* Create_TBAA_Struct_Type_Node (ctx, MDHelper, name, size, num_fields, parent,
\* fields, offsets, sizes); parent and fields are nodes the builder returned
\* earlier.
Create_TBAA_Struct_Type_Node ==
  /\ Len(ctx) < MaxNodes
  /\ \E a \in StructArgs(Len(ctx), Names, TreeTypeSizes, TreeFieldOffsets,
                          TreeFieldSizes) : StructCall(a)
  /\ UNCHANGED <<pending, optVars, vhVars, fpVars, eqVars>>

\* Create_TBAA_Struct_Type_Node on the argument lists drawn at the start.
Create_TBAA_Struct_Type_Node_Pending ==
  /\ pending.fn = "struct"
  /\ tbaaCall.fn = "none"
  /\ StructCall(pending)
  /\ UNCHANGED <<pending, optVars, vhVars, fpVars, eqVars>>

\* The parent operand of node i (0: it has none).
ParentOf(c, i) == IF c[i][1].k = "node" THEN c[i][1].n ELSE 0

\* Whether the walk along parent operands from node i reaches the root node
\* within fuel hops.
RECURSIVE ReachesRoot(_, _, _)
ReachesRoot(c, i, fuel) ==
  IF c[i] = RootOps THEN TRUE
  ELSE IF fuel = 0 \/ ParentOf(c, i) = 0 THEN FALSE
  ELSE ReachesRoot(c, ParentOf(c, i), fuel - 1)

\* The nodes met on the walk along parent operands from node i, within fuel hops.
RECURSIVE AncestorsOf(_, _, _)
AncestorsOf(c, i, fuel) ==
  IF fuel = 0 \/ ParentOf(c, i) = 0 THEN {}
  ELSE {ParentOf(c, i)} \cup AncestorsOf(c, ParentOf(c, i), fuel - 1)
(* ------------------------ Convert_FP_To_String ------------------------- *)

\* Text is a sequence of characters; a C string in a buffer ends at NUL.
NUL == "NUL"
DecDigitChars == <<"0", "1", "2", "3", "4", "5", "6", "7", "8", "9">>
HexDigitChars == DecDigitChars \o <<"a", "b", "c", "d", "e", "f">>

\* The floating point semantics: exponent and significand field widths.
Semantics ==
  {[name |-> "IEEEhalf", expBits |-> 5, mantBits |-> 10],
   [name |-> "IEEEsingle", expBits |-> 8, mantBits |-> 23],
   [name |-> "IEEEdouble", expBits |-> 11, mantBits |-> 52],
   [name |-> "IEEEquad", expBits |-> 15, mantBits |-> 112]}

\* An APFloat: its semantics, category and sign; for a finite non-zero value
\* the significant decimal digits and the decimal exponent toString computes
\* for it; for a NaN the low bit of its payload.
APFloat(sem, cat, neg, digits, exp10, payload) ==
  [sem |-> sem, cat |-> cat, neg |-> neg, digits |-> digits, exp10 |-> exp10,
   payload |-> payload]
DigitStrings ==
  UNION {{<<d>> \o rest : d \in {1, 9}, rest \in [1 .. (n - 1) -> {0, 5}]} :
           n \in 1 .. MaxDigits}
Exponents == {0 - 1, 0, 12}
APFloats ==
  UNION {
    {APFloat(sem, "fcZero", neg, <<>>, 0, 0) : neg \in BOOLEAN}
    \cup {APFloat(sem, "fcNormal", neg, ds, e, 0) :
            neg \in BOOLEAN, ds \in DigitStrings, e \in Exponents}
    \cup {APFloat(sem, "fcInfinity", neg, <<>>, 0, 0) : neg \in BOOLEAN}
    \cup {APFloat(sem, "fcNaN", neg, <<>>, 0, pl) :
            neg \in BOOLEAN, pl \in {0, 1}} : sem \in Semantics}

\* APFloat::isInfinity, APFloat::isNaN
isInfinity(APF) == APF.cat = "fcInfinity"
isNaN(APF) == APF.cat = "fcNaN"

\* The decimal digits of a natural number, at least width of them.
RECURSIVE DecimalOf(_, _)
DecimalOf(n, width) ==
  IF n < 10 /\ width <= 1 THEN <<DecDigitChars[n + 1]>>
  ELSE Append(DecimalOf(n \div 10, width - 1), DecDigitChars[(n % 10) + 1])

\* APF.toString (StrVal, 0, 0, false): scientific notation, the digits padded
\* with zeros to the precision of the semantics, the exponent of two digits
\* at least.
APFloat_toString(APF) ==
  LET sign == IF APF.neg THEN <<"-">> ELSE <<>>
      FormatPrecision == 2 + ((APF.sem.mantBits + 1) * 59) \div 196
      NDigits == Len(APF.digits)
      ds == [k \in 1 .. NDigits |-> DecDigitChars[APF.digits[k] + 1]]
      pad == [k \in 1 .. (FormatPrecision - NDigits + 1) |-> "0"]
      e == IF APF.exp10 < 0
           THEN <<"e", "-">> \o DecimalOf(0 - APF.exp10, 2)
           ELSE <<"e", "+">> \o DecimalOf(APF.exp10, 2)
  IN  IF APF.cat = "fcZero"
      THEN sign \o <<"0", ".", "0", "e", "+", "0", "0">>
      ELSE sign \o <<ds[1], ".">> \o SubSeq(ds, 2, NDigits) \o pad \o e

\* APF.bitcastToAPInt () of an infinity or a NaN: the bits, the sign first.
bitcastToAPInt(APF) ==
  LET mant == [k \in 1 .. APF.sem.mantBits |->
                 IF APF.cat # "fcNaN" THEN 0
                 ELSE IF k = 1 THEN 1
                 ELSE IF k = APF.sem.mantBits THEN APF.payload
                 ELSE 0]
  IN  <<IF APF.neg THEN 1 ELSE 0>> \o [k \in 1 .. APF.sem.expBits |-> 1] \o mant

\* utohexstr (X, /*Lower=*/true) on the bits of X: one digit for each four
\* bits from the low end while X is not zero.
RECURSIVE HexLoop(_)
HexLoop(bits) ==
  IF \A k \in 1 .. Len(bits) : bits[k] = 0 THEN <<>>
  ELSE LET n == Len(bits)
           Mod == 8 * bits[n - 3] + 4 * bits[n - 2] + 2 * bits[n - 1] + bits[n]
       IN  Append(HexLoop(SubSeq(bits, 1, n - 4)), HexDigitChars[Mod + 1])
utohexstr(bits) ==
  IF \A k \in 1 .. Len(bits) : bits[k] = 0 THEN <<"0">> ELSE HexLoop(bits)

\* strcpy (Buf, s) and strlen (Buf)
strcpy(str) == Append(str, NUL)
strlen(buf) == (CHOOSE k \in 1 .. Len(buf) :
                  buf[k] = NUL /\ \A j \in 1 .. (k - 1) : buf[j] # NUL) - 1

unsupportedMarker == <<"<", "u", "n", "s", "u", "p", "p", "o", "r", "t", "e", "d", " ", "f", "l", "o", "a", "t", "i", "n", "g", " ", "p", "o", "i", "n", "t", " ", "t", "y", "p", "e", ">">>

\* A variant of ConvertFP that appends the suffix for double precision.
ConvertFP_SuffixOnDouble(APF) ==
  IF APF.sem.name = "IEEEsingle" \/ APF.sem.name = "IEEEdouble"
  THEN IF ~isInfinity(APF) /\ ~isNaN(APF)
       THEN LET StrVal == APFloat_toString(APF)
                b == strcpy(IF APF.sem.name = "IEEEdouble"
                            THEN Append(StrVal, "f") ELSE StrVal)
            IN  [Buf |-> b, ret |-> strlen(b)]
       ELSE LET S == <<"0", "x">> \o utohexstr(bitcastToAPInt(APF))
                       \o <<"p", "0">>
            IN  [Buf |-> strcpy(S), ret |-> Len(S)]
  ELSE LET b == strcpy(unsupportedMarker) IN [Buf |-> b, ret |-> strlen(b)]

\* Convert_FP_To_String (V, Buf), on the APFloat of V: the buffer and the
\* value returned.
ConvertFP(APF) ==
  IF APF.sem.name = "IEEEsingle" \/ APF.sem.name = "IEEEdouble"
  THEN IF ~isInfinity(APF) /\ ~isNaN(APF)
       THEN LET StrVal == APFloat_toString(APF)
                b == strcpy(IF APF.sem.name = "IEEEsingle"
                            THEN Append(StrVal, "f") ELSE StrVal)
            IN  [Buf |-> b, ret |-> strlen(b)]
       ELSE LET S == <<"0", "x">> \o utohexstr(bitcastToAPInt(APF))
                       \o <<"p", "0">>
            IN  [Buf |-> strcpy(S), ret |-> Len(S)]
  ELSE LET b == strcpy(unsupportedMarker) IN [Buf |-> b, ret |-> strlen(b)]

Convert_FP_To_String ==
  /\ ~fpDone
  /\ LET r == ConvertFP(fpV)
     IN  /\ Buf' = r.Buf
         /\ fpRet' = r.ret
  /\ fpDone' = TRUE
  /\ UNCHANGED <<fpV, optVars, vhVars, tbaaVars, eqVars>>

(* --------------------------- Equal_Constants --------------------------- *)

RECURSIVE Pow2(_)
Pow2(n) == IF n = 0 THEN 1 ELSE 2 * Pow2(n - 1)

\* An APInt: its bit width and its bits, as the unsigned number they spell.
APInt(w, u) == [BitWidth |-> w, U |-> u]
APInts == UNION {{APInt(w, u) : u \in 0 .. (Pow2(w) - 1)} : w \in 1 .. MaxWidth}

\* A variant of sext that fills the new high bits with zeros.
sext_ZeroFill(x, w) == APInt(w, x.U)

\* APInt::sext (width): the new high bits are copies of the sign bit.
sext(x, w) ==
  IF x.U >= Pow2(x.BitWidth - 1)
  THEN APInt(w, x.U + Pow2(w) - Pow2(x.BitWidth))
  ELSE APInt(w, x.U)

\* Equal_Constants (v1, v2), on the APInts of v1 and v2.
EqualConstants(v1, v2) ==
  LET i2 == IF v1.BitWidth > v2.BitWidth THEN sext(v2, v1.BitWidth) ELSE v2
      i1 == IF ~(v1.BitWidth > v2.BitWidth) /\ v2.BitWidth > v1.BitWidth
            THEN sext(v1, v2.BitWidth) ELSE v1
  IN  i1 = i2

Equal_Constants ==
  /\ ~eqDone
  /\ eqRet' = EqualConstants(eqV[1], eqV[2])
  /\ eqDone' = TRUE
  /\ UNCHANGED <<eqV, optVars, vhVars, tbaaVars, fpVars>>

(* --------------------------- specifications ---------------------------- *)

OptIdle ==
  /\ args = [CodeOptLevel |-> 0, SizeOptLevel |-> 0, NeedLoopInfo |-> FALSE,
             NoUnrollLoops |-> FALSE, NoLoopVectorization |-> FALSE,
             NoSLPVectorization |-> FALSE, MergeFunctions |-> FALSE,
             PrepareForThinLTO |-> FALSE, PrepareForLTO |-> FALSE,
             RerollLoops |-> FALSE, PassPluginName |-> "null",
             ErrorMessage |-> "null"]
  /\ ncalls = 0
  /\ frame = NoFrame
  /\ ErrorMessage = "unset"
  /\ M = <<>>
  /\ aborted = FALSE

VHIdle ==
  /\ alive = [a \in Addrs |-> TRUE]
  /\ reused = 0
  /\ handles = <<>>
  /\ calls = <<>>
  /\ uafReads = {}
  /\ crashed = FALSE

TBAAIdle ==
  /\ ctx = <<>>
  /\ tbaaCall = NoCall
  /\ pending = NoCall

FPIdle ==
  /\ fpV = APFloat(CHOOSE sem \in Semantics : sem.name = "IEEEdouble",
                   "fcZero", FALSE, <<>>, 0, 0)
  /\ Buf = <<>>
  /\ fpRet = 0
  /\ fpDone = FALSE

EQIdle ==
  /\ eqV = <<APInt(1, 0), APInt(1, 0)>>
  /\ eqRet = FALSE
  /\ eqDone = FALSE

\* The optimizer: a module not yet optimized, and any argument list.
InitOpt ==
  /\ args \in ArgSpace
  /\ ncalls = 0
  /\ frame = NoFrame
  /\ ErrorMessage = "unset"
  /\ M = <<>>
  /\ aborted = FALSE
  /\ VHIdle
  /\ TBAAIdle
  /\ FPIdle
  /\ EQIdle
NextOpt == LLVM_Optimize_Module
SpecOpt == InitOpt /\ [][NextOpt]_vars

\* The value handles: the Values of the module alive, none tracked.
InitVH == OptIdle /\ VHIdle /\ TBAAIdle /\ FPIdle /\ EQIdle
NextVH == Notify_On_Value_Delete \/ Value_Deleted \/ Address_Reused
SpecVH == InitVH /\ [][NextVH]_vars

\* The TBAA hierarchy: an empty context.
InitTBAA == OptIdle /\ VHIdle /\ TBAAIdle /\ FPIdle /\ EQIdle
NextTBAA ==
  \/ Create_TBAA_Root
  \/ Create_TBAA_Scalar_Type_Node
  \/ Create_TBAA_Struct_Type_Node
SpecTBAA == InitTBAA /\ [][NextTBAA]_vars

\* One Create_TBAA_Struct_Type_Node call over a context that holds the root
\* and two scalar type nodes, on any argument lists.
StructCtx ==
  LET c1 == MDNode_get(<<>>, RootOps).ctx
      c2 == MDNode_get(c1, ScalarOps("a", 8, 1)).ctx
  IN  MDNode_get(c2, ScalarOps("b", 16, 2)).ctx
InitStruct ==
  /\ OptIdle
  /\ VHIdle
  /\ FPIdle
  /\ EQIdle
  /\ ctx = StructCtx
  /\ tbaaCall = NoCall
  /\ pending \in StructArgs(Len(StructCtx), Names, TypeSizes, FieldOffsets,
                            FieldSizes)
NextStruct == Create_TBAA_Struct_Type_Node_Pending
SpecStruct == InitStruct /\ [][NextStruct]_vars

\* One Equal_Constants call on any two ConstantInts.
InitEQ ==
  /\ OptIdle
  /\ VHIdle
  /\ TBAAIdle
  /\ FPIdle
  /\ eqV \in APInts \X APInts
  /\ eqRet = FALSE
  /\ eqDone = FALSE
NextEQ == Equal_Constants
SpecEQ == InitEQ /\ [][NextEQ]_vars

\* One Convert_FP_To_String call on any ConstantFP.
InitFP ==
  /\ OptIdle
  /\ VHIdle
  /\ TBAAIdle
  /\ EQIdle
  /\ fpV \in APFloats
  /\ Buf = <<>>
  /\ fpRet = 0
  /\ fpDone = FALSE
NextFP == Convert_FP_To_String
SpecFP == InitFP /\ [][NextFP]_vars

Init == InitOpt \/ InitVH \/ InitStruct \/ InitEQ \/ InitFP
Next == NextOpt \/ NextVH \/ NextTBAA \/ NextStruct \/ NextEQ \/ NextFP
Spec == Init /\ [][Next]_vars
(* ------------------------------- claims -------------------------------- *)

\* The callback invocations made by handle i.
CallsOf(i) == SelectSeq(calls, LAMBDA c : c.handle = i)

\* C1: every registration is Armed with its callback not invoked while its
\* value has not been destroyed, and once the value is destroyed it is Fired
\* with its callback invoked exactly once, on the value registered, and never
\* again; no deletion ends in a crash.
C1_ExactlyOnceWithIdentity ==
  /\ ~crashed
  /\ \A i \in 1 .. Len(handles) :
       /\ handles[i].st = "Armed" => CallsOf(i) = <<>>
       /\ handles[i].st = "Fired" =>
            /\ Len(CallsOf(i)) = 1
            /\ CallsOf(i)[1].fn = handles[i].fn
            /\ CallsOf(i)[1].arg = handles[i].val

\* C1: a state in which a tracked value has been destroyed.
C1_Fired == \E i \in 1 .. Len(handles) : handles[i].st = "Fired"

\* C2: the deletion handler reads no field of the registration after the
\* registration's storage has been released.
C2_NoReadAfterRelease == uafReads = {}

\* C2: a state in which a registration has been released by its handler.
C2_Released ==
  \E i \in 1 .. Len(handles) : handles[i].st = "Fired" /\ ~alive[handles[i].val]
\* A call of LLVM_Optimize_Module has returned.
Returned == ncalls > 0 /\ frame.returned
\* A plugin path was supplied and loading it fails.
PluginLoadFails ==
  args.PassPluginName # "null" /\ ~PassPlugin_Load(args.PassPluginName).ok
\* The default pipelines among the passes of MPM.
MainPipelines(MPM) == {i \in 1 .. Len(MPM) : MPM[i].pass \in PipelineKinds}

\* C3: when a plugin path is supplied and loading it fails, the call returns
\* the error status with no pass sequence assembled or run and the module as
\* it was, whatever the other arguments are.
C3_LoadFailureRunsNoPass ==
  (ncalls > 0 /\ PluginLoadFails) =>
    /\ frame.returned
    /\ frame.ret = 1
    /\ ~frame.built
    /\ frame.MPM = <<>>
    /\ ~frame.ran
    /\ M = <<>>

\* C3: a call with a plugin that does not load, at level 2 with loop
\* information requested, has returned.
C3_LoadFailed ==
  /\ Returned
  /\ PluginLoadFails
  /\ args.CodeOptLevel = 2
  /\ args.NeedLoopInfo
  /\ args.PrepareForLTO

\* C4: for an optimization level in 0..3 exactly one default pipeline is
\* selected, the first whose case matches: the level-0 pipeline at level 0,
\* else the thin-link pre-link pipeline when thin-link is requested, else the
\* LTO pre-link pipeline when LTO is requested, else the per-module pipeline.
C4_FirstMatchWins ==
  (Returned /\ frame.ret = 0 /\ args.CodeOptLevel \in 0 .. 3) =>
    /\ Cardinality(MainPipelines(frame.MPM)) = 1
    /\ frame.MPM[1].pass =
         (IF args.CodeOptLevel = 0 THEN "O0Default"
          ELSE IF args.PrepareForThinLTO THEN "ThinLTOPreLink"
          ELSE IF args.PrepareForLTO THEN "LTOPreLink"
          ELSE "PerModule")

\* C4: thin-link and LTO both requested at level 2, and the thin-link pre-link
\* pipeline selected.
C4_ThinLinkOverLTO ==
  /\ Returned
  /\ args.CodeOptLevel = 2
  /\ args.PrepareForThinLTO
  /\ args.PrepareForLTO
  /\ frame.ret = 0
  /\ frame.MPM[1].pass = "ThinLTOPreLink"

\* C5: when plugin loading fails the call returns a non-zero status without
\* aborting the process, and the message is stored through ErrorMessage when
\* the caller supplied it.
C5_LoadFailureReported ==
  /\ (ncalls > 0 /\ PluginLoadFails) =>
       /\ ~aborted
       /\ frame.returned
       /\ frame.ret # 0
  /\ (Returned /\ frame.ret # 0) =>
       /\ PluginLoadFails
       /\ args.ErrorMessage # "null" =>
            /\ ErrorMessage # "unset"
            /\ ErrorMessage = PassPlugin_Load(args.PassPluginName).msg

\* C5: a failed call that stored its message for the caller.
C5_MessageStored ==
  /\ Returned
  /\ frame.ret = 1
  /\ args.ErrorMessage = "ptr"
  /\ ErrorMessage = "Could not load library"

\* C6: with loop information requested the pass sequence is the default
\* pipeline, then the loop rotation pass exactly when the level is 0, then the
\* observational loop pass last; without it the sequence is the default
\* pipeline alone.
C6_LoopPassLast ==
  (Returned /\ frame.ret = 0) =>
    LET MPM == frame.MPM
    IN  /\ MPM[1].pass \in PipelineKinds
        /\ IF args.NeedLoopInfo
           THEN IF args.CodeOptLevel = 0
                THEN Len(MPM) = 3 /\ MPM[2] = LoopRotatePass /\ MPM[3] = OurLoopPass
                ELSE Len(MPM) = 2 /\ MPM[2] = OurLoopPass
           ELSE Len(MPM) = 1

\* C6: loop information requested at level 0: the rotation pass and then the
\* observational pass follow the default pipeline.
C6_RotatedAtLevel0 ==
  /\ Returned
  /\ args.NeedLoopInfo
  /\ args.CodeOptLevel = 0
  /\ Len(frame.MPM) = 3

\* C7: unrolling and interleaving are both the negation of the no-unroll
\* flag, loop and SLP vectorization the negations of their own flags, and
\* function merging the merge-functions flag.
C7_TuningFollowsFlags ==
  ncalls > 0 =>
    /\ frame.PTO.LoopUnrolling = ~args.NoUnrollLoops
    /\ frame.PTO.LoopInterleaving = ~args.NoUnrollLoops
    /\ frame.PTO.LoopInterleaving = frame.PTO.LoopUnrolling
    /\ frame.PTO.LoopVectorization = ~args.NoLoopVectorization
    /\ frame.PTO.SLPVectorization = ~args.NoSLPVectorization
    /\ frame.PTO.MergeFunctions = args.MergeFunctions

\* C7: unrolling suppressed and vectorization not: interleaving is off while
\* loop vectorization is on.
C7_UnrollOffVectorizeOn ==
  /\ ncalls > 0
  /\ args.NoUnrollLoops
  /\ ~args.NoLoopVectorization
  /\ ~frame.PTO.LoopInterleaving
  /\ frame.PTO.LoopVectorization

\* C8: levels 0, 1, 2, 3 give O0, O1, O2, O3, and a call whose arguments
\* differ from this one's only in the size level and the reroll-loops flag
\* ends with the same level, tuning options, pass sequence and status.
C8_SizeLevelHasNoInfluence ==
  ncalls > 0 =>
    /\ args.CodeOptLevel = 0 => frame.Level = "O0"
    /\ args.CodeOptLevel = 1 => frame.Level = "O1"
    /\ args.CodeOptLevel = 2 => frame.Level = "O2"
    /\ args.CodeOptLevel = 3 => frame.Level = "O3"
    /\ \A size \in SizeOptLevels, reroll \in BOOLEAN :
         OptimizeModule([args EXCEPT !.SizeOptLevel = size,
                                     !.RerollLoops = reroll],
                        "unset", <<>>).frame = frame

\* C8: a call at level 3 with the largest size level and reroll-loops set.
C8_SizeLevelSet ==
  /\ Returned
  /\ args.CodeOptLevel = 3
  /\ args.SizeOptLevel = MaxSizeLevel
  /\ args.RerollLoops
  /\ frame.Level = "O3"
  /\ frame.ret = 0

C10_FieldsPositional ==
  tbaaCall.fn = "struct" =>
    LET Ops == ctx[tbaaCall.ret]
        n == tbaaCall.num_fields
    IN  /\ Len(Ops) = 3 + 3 * n
        /\ Ops[1] = MDNodeRef(tbaaCall.parent)
        /\ Ops[2] = MDConstant(tbaaCall.size)
        /\ Ops[3] = MDString(tbaaCall.name)
        /\ \A i \in 0 .. (n - 1) :
             /\ Ops[3 + 3 * i + 1] = MDNodeRef(tbaaCall.fields[i + 1])
             /\ Ops[3 + 3 * i + 2] = MDConstant(tbaaCall.offsets[i + 1])
             /\ Ops[3 + 3 * i + 3] = MDConstant(tbaaCall.sizes[i + 1])

\* C10: a call with two fields that differ in child, offset and size.
C10_TwoDistinctFields ==
  /\ tbaaCall.fn = "struct"
  /\ tbaaCall.num_fields = 2
  /\ tbaaCall.fields[1] # tbaaCall.fields[2]
  /\ tbaaCall.offsets[1] # tbaaCall.offsets[2]
  /\ tbaaCall.sizes[1] # tbaaCall.sizes[2]
  /\ Len(ctx[tbaaCall.ret]) = 9
\* C13: for every value of the optimization-level argument the level-0
\* pipeline is the one selected exactly when the derived level is O0: no
\* per-module, thin-link pre-link or LTO pre-link pipeline is built with O0.
C13_O0PipelineIffLevelO0 ==
  (Returned /\ frame.ret = 0) =>
    /\ frame.MPM[1].pass = "O0Default" <=> frame.Level = "O0"
    /\ \A i \in MainPipelines(frame.MPM) :
         frame.MPM[i].pass # "O0Default" => frame.MPM[i].Level # "O0"

\* C13: a call with an optimization level outside 0..3 has built its passes.
C13_LevelOutOfRange ==
  /\ Returned
  /\ frame.ret = 0
  /\ args.CodeOptLevel \notin 0 .. 3
  /\ frame.Level = "O0"
\* The text written to the buffer: the characters before the terminator.
BufText == SubSeq(Buf, 1, strlen(Buf))
\* Decimal form: an optional sign, digits with a decimal point, and a signed
\* decimal exponent; no other character.
IsDecimalText(t) ==
  /\ \E k \in 1 .. Len(t) : t[k] \in {DecDigitChars[d] : d \in 1 .. 10}
  /\ \A k \in 1 .. Len(t) :
       t[k] \in {DecDigitChars[d] : d \in 1 .. 10} \cup {".", "e", "+", "-"}
\* Hexadecimal bit-pattern form: "0x", hexadecimal digits, "p0".
IsHexText(t) ==
  /\ Len(t) > 4
  /\ SubSeq(t, 1, 2) = <<"0", "x">>
  /\ SubSeq(t, Len(t) - 1, Len(t)) = <<"p", "0">>
  /\ \A k \in 3 .. (Len(t) - 2) : t[k] \in {HexDigitChars[d] : d \in 1 .. 16}

\* C11: the value returned is the length of the text written; for single or
\* double precision a finite value is written in decimal form, followed by
\* "f" exactly when the precision is single, and an infinity or NaN in the
\* hexadecimal bit-pattern form with no suffix; for any other precision the
\* unsupported marker is written whatever the value.
C11_RenderingByPrecisionAndClass ==
  fpDone =>
    LET t == BufText
        single == fpV.sem.name = "IEEEsingle"
        double == fpV.sem.name = "IEEEdouble"
        finite == fpV.cat \in {"fcZero", "fcNormal"}
    IN  /\ Buf[Len(Buf)] = NUL
        /\ fpRet = Len(Buf) - 1
        /\ fpRet = Len(t)
        /\ (single /\ finite) =>
             t[Len(t)] = "f" /\ IsDecimalText(SubSeq(t, 1, Len(t) - 1))
        /\ (double /\ finite) => IsDecimalText(t)
        /\ ((single \/ double) /\ ~finite) => IsHexText(t)
        /\ ~(single \/ double) => t = unsupportedMarker

\* C11: a negative single precision NaN has been written in the hexadecimal
\* form.
C11_SingleNaNInHex ==
  /\ fpDone
  /\ fpV.sem.name = "IEEEsingle"
  /\ fpV.cat = "fcNaN"
  /\ fpV.neg
  /\ BufText = <<"0", "x", "f", "f", "c", "0", "0", "0", "0", "1", "p", "0">>

\* The integer an APInt denotes as a two's-complement number of its width.
SignedValue(x) ==
  IF x.U >= Pow2(x.BitWidth - 1) THEN x.U - Pow2(x.BitWidth) ELSE x.U

\* C12: the result is true exactly when the two constants denote the same
\* integer, each read as a two's-complement number of its own width, and it
\* is the same with the arguments exchanged.
C12_EqualAsSigned ==
  eqDone =>
    /\ eqRet = (SignedValue(eqV[1]) = SignedValue(eqV[2]))
    /\ eqRet = EqualConstants(eqV[2], eqV[1])

\* C12: a negative constant and the same number in a wider type compare equal.
C12_NegativeAcrossWidths ==
  /\ eqDone
  /\ eqV[1].BitWidth < eqV[2].BitWidth
  /\ SignedValue(eqV[1]) < 0
  /\ eqRet
====
